---- MODULE Spec2Model ----
(***************************************************************************)
(* Model of src/image.py: the focused EXIF / image metadata extractor.     *)
(*                                                                         *)
(* Representation.                                                         *)
(*   - A Python str whose characters matter (tag values, tokens) is a      *)
(*     sequence of one-character strings: "X100" is <<"X","1","0","0">>.   *)
(*   - Python None, where a str may stand, is the sequence None below; it  *)
(*     is no character sequence (its element has more than one character). *)
(*   - A Python float is an exact rational [n |-> .., d |-> ..] in lowest  *)
(*     terms with d > 0; None, where a float may stand, is NoneF (d = 0).  *)
(*   - Dictionary keys (tag names, record fields) are TLA+ strings.        *)
(***************************************************************************)
EXTENDS Integers, Sequences, FiniteSets, TLC

\* ------------------------------------------------------------------------
\* Python values
\* ------------------------------------------------------------------------
None == <<"<None>">>
NoneF == [n |-> 0, d |-> 0]

\* Python truthiness of a str-or-None value: None and '' are falsy.
Truthy(v) == v # None /\ v # <<>>

\* a or b
PyOr(a, b) == IF Truthy(a) THEN a ELSE b

Digit == {"0", "1", "2", "3", "4", "5", "6", "7", "8", "9"}
Whitespace == {" "}

DigitVal(c) ==
    CASE c = "0" -> 0 [] c = "1" -> 1 [] c = "2" -> 2 [] c = "3" -> 3
      [] c = "4" -> 4 [] c = "5" -> 5 [] c = "6" -> 6 [] c = "7" -> 7
      [] c = "8" -> 8 [] c = "9" -> 9

Abs(x) == IF x < 0 THEN 0 - x ELSE x

RECURSIVE Gcd(_, _)
Gcd(a, b) == IF b = 0 THEN a ELSE Gcd(b, a % b)

\* The float n/d (d # 0) in lowest terms with a positive denominator.
Reduce(n, d, g) ==
    IF d < 0 THEN [n |-> 0 - (n \div g), d |-> 0 - (d \div g)]
    ELSE [n |-> n \div g, d |-> d \div g]

Rat(n, d) == Reduce(n, d, Gcd(Abs(n), Abs(d)))

RatAdd(a, b) == Rat(a.n * b.d + b.n * a.d, a.d * b.d)
RatDiv(a, b) == Rat(a.n * b.d, a.d * b.n)
RatNeg(a) == [n |-> 0 - a.n, d |-> a.d]
RatAbs(a) == [n |-> Abs(a.n), d |-> a.d]
RatInt(k) == [n |-> k, d |-> 1]

RECURSIVE Pow10(_)
Pow10(k) == IF k = 0 THEN 1 ELSE 10 * Pow10(k - 1)

\* str.strip(): drop leading and trailing whitespace.
RECURSIVE LStrip(_)
LStrip(s) == IF s # <<>> /\ Head(s) \in Whitespace THEN LStrip(Tail(s)) ELSE s

RECURSIVE RStrip(_)
RStrip(s) ==
    IF s # <<>> /\ s[Len(s)] \in Whitespace
    THEN RStrip(SubSeq(s, 1, Len(s) - 1)) ELSE s

Strip(s) == RStrip(LStrip(s))

\* " ".join(parts)
RECURSIVE Join(_)
Join(parts) ==
    IF parts = <<>> THEN <<>>
    ELSE IF Len(parts) = 1 THEN parts[1]
    ELSE parts[1] \o <<" ">> \o Join(Tail(parts))

\* value of a run of decimal digits
RECURSIVE DigitsValue(_)
DigitsValue(s) ==
    IF s = <<>> THEN 0
    ELSE 10 * DigitsValue(SubSeq(s, 1, Len(s) - 1)) + DigitVal(s[Len(s)])

AllDigits(s) == \A i \in 1..Len(s) : s[i] \in Digit

\* index of the first occurrence of character c in s, 0 when there is none
IndexOf(s, c) ==
    IF \E i \in 1..Len(s) : s[i] = c
    THEN CHOOSE i \in 1..Len(s) : s[i] = c /\ \A j \in 1..(i - 1) : s[j] # c
    ELSE 0

\* float(str): [sign] digits [. digits]; anything else raises (NoneF here).
IntPart(body) ==
    IF IndexOf(body, ".") = 0 THEN body ELSE SubSeq(body, 1, IndexOf(body, ".") - 1)

FracPart(body) ==
    IF IndexOf(body, ".") = 0 THEN <<>>
    ELSE SubSeq(body, IndexOf(body, ".") + 1, Len(body))

PyFloatDigits(neg, ip, fp) ==
    IF Len(ip) + Len(fp) = 0 \/ ~AllDigits(ip) \/ ~AllDigits(fp) THEN NoneF
    ELSE Rat((IF neg THEN 0 - 1 ELSE 1)
                * (DigitsValue(ip) * Pow10(Len(fp)) + DigitsValue(fp)),
             Pow10(Len(fp)))

PyFloatSigned(neg, body) == PyFloatDigits(neg, IntPart(body), FracPart(body))

PyFloatStripped(s) ==
    PyFloatSigned(s # <<>> /\ s[1] = "-",
                  IF s # <<>> /\ s[1] \in {"-", "+"} THEN Tail(s) ELSE s)

PyFloat(str) == PyFloatStripped(Strip(str))

\* ------------------------------------------------------------------------
\* utilities
\* ------------------------------------------------------------------------

\* rational_to_float(r).  r is one of
\*   [kind |-> "Ratio", num, den]   an exifread Ratio
\*   [kind |-> "list", items]       a list / tuple
\*   [kind |-> "str", chars]        a str: float(r), None when it does not parse
\*   [kind |-> "float", val]        a float (val may be NoneF: the value None)
RECURSIVE rational_to_float(_)
rational_to_float(r) ==
    CASE r.kind = "Ratio" ->
            IF r.den = 0 THEN [kind |-> "float", val |-> RatInt(0)]
            ELSE [kind |-> "float", val |-> Rat(r.num, r.den)]
      [] r.kind = "list" ->
            [kind |-> "list",
             items |-> [i \in 1..Len(r.items) |-> rational_to_float(r.items[i])]]
      [] r.kind = "str" -> [kind |-> "float", val |-> PyFloat(r.chars)]
      [] r.kind = "float" -> r

\* rational_to_float on a float-or-None component, as dms_to_decimal calls it
CoerceFloat(x) == rational_to_float([kind |-> "float", val |-> x]).val

Precision == 7

\* round(q, Precision) for q >= 0: long division, ties to even
RECURSIVE FracDigits(_, _, _, _)
FracDigits(rem, d, k, acc) ==
    IF k = 0 THEN <<acc, rem>>
    ELSE FracDigits((rem * 10) % d, d, k - 1, acc * 10 + ((rem * 10) \div d))

RoundUp(r, d) ==
    IF 2 * r[2] > d \/ (2 * r[2] = d /\ r[1] % 2 = 1) THEN r[1] + 1 ELSE r[1]

RoundMag(q) ==
    Rat(RoundUp(FracDigits(q.n % q.d, q.d, Precision, q.n \div q.d), q.d),
        Pow10(Precision))

PyRound(q) == IF q.n < 0 THEN RatNeg(RoundMag(RatAbs(q))) ELSE RoundMag(q)

\* str(ref).upper() in ('S','W')
Upper(s) == [i \in 1..Len(s) |->
               CASE s[i] = "s" -> "S" [] s[i] = "w" -> "W" [] s[i] = "n" -> "N"
                 [] s[i] = "e" -> "E" [] OTHER -> s[i]]

\* the comparison without upper()
RefFlipsCaseSensitive(ref) == Truthy(ref) /\ ref \in {<<"S">>, <<"W">>}

RefFlips(ref) == Truthy(ref) /\ Upper(ref) \in {<<"S">>, <<"W">>}

\* dec = deg + (minute / 60.0) + (sec / 3600.0), negated for S / W, rounded
DmsDecimal(deg, minute, sec, ref) ==
    IF deg = NoneF \/ minute = NoneF \/ sec = NoneF THEN NoneF
    ELSE IF RefFlips(ref)
         THEN PyRound(RatNeg(RatAdd(RatAdd(deg, RatDiv(minute, RatInt(60))),
                                    RatDiv(sec, RatInt(3600)))))
         ELSE PyRound(RatAdd(RatAdd(deg, RatDiv(minute, RatInt(60))),
                             RatDiv(sec, RatInt(3600))))

\* dms_to_decimal(dms, ref): dms a sequence of float-or-None
dms_to_decimal(dms, ref) ==
    IF Len(dms) < 3 THEN NoneF
    ELSE DmsDecimal(CoerceFloat(dms[1]), CoerceFloat(dms[2]), CoerceFloat(dms[3]), ref)

\* ------------------------------------------------------------------------
\* GPS token scanning and parsing (inside parse_friendly_exif)
\* ------------------------------------------------------------------------

\* float(num) / float(den), None when a float() or the division raises
Quotient(num, den) ==
    IF num = NoneF \/ den = NoneF \/ den.n = 0 THEN NoneF ELSE RatDiv(num, den)

ParseStripped(s) ==
    IF IndexOf(s, "/") # 0
    THEN Quotient(PyFloat(SubSeq(s, 1, IndexOf(s, "/") - 1)),
                  PyFloat(SubSeq(s, IndexOf(s, "/") + 1, Len(s))))
    ELSE PyFloat(s)

\* parse_component(comp_str)
parse_component(comp_str) == ParseStripped(Strip(comp_str))

\* end of the maximal run of digits of s starting at index j
RECURSIVE DigitsEnd(_, _)
DigitsEnd(s, j) ==
    IF j <= Len(s) /\ s[j] \in Digit THEN DigitsEnd(s, j + 1) ELSE j

\* re.match of  -?\d+/\d+ | -?\d+\.\d+ | -?\d+  at index i of s:
\* the index after the match, 0 when there is no match at i.
\* j is the index after the optional sign, e the end of the digits from j.
MatchTail(s, j, e) ==
    IF e = j THEN 0
    ELSE IF e <= Len(s) /\ s[e] \in {"/", "."} /\ DigitsEnd(s, e + 1) > e + 1
         THEN DigitsEnd(s, e + 1)
    ELSE e

MatchDigits(s, j) == MatchTail(s, j, DigitsEnd(s, j))

MatchEnd(s, i) == MatchDigits(s, IF s[i] = "-" THEN i + 1 ELSE i)

\* re.findall(pattern, s): the non-overlapping matches, left to right
RECURSIVE FindAllFrom(_, _)
FindAllNext(s, i, e) ==
    IF e = 0 THEN FindAllFrom(s, i + 1)
    ELSE <<SubSeq(s, i, e - 1)>> \o FindAllFrom(s, e)

FindAllFrom(s, i) ==
    IF i > Len(s) THEN <<>> ELSE FindAllNext(s, i, MatchEnd(s, i))

FindAll(s) == FindAllFrom(s, 1)

\* ------------------------------------------------------------------------
\* parse_friendly_exif
\* ------------------------------------------------------------------------

\* The tag names parse_friendly_exif reads.  A tag map is a function from
\* TagKeys to a str, or to None for a key that is not in the dict (the
\* values of the dict are str(v), never None).
dt_keys == <<"EXIF DateTimeOriginal", "EXIF DateTimeDigitized", "Image DateTime">>
MakeKeys == <<"Image Make", "Make">>
ModelKeys == <<"Image Model", "Model">>
IsoKeys == <<"EXIF ISOSpeedRatings", "PhotographicSensitivity">>
ExposureKeys == <<"EXIF ExposureTime", "ExposureTime">>
FNumberKeys == <<"EXIF FNumber", "FNumber">>
FocalKeys == <<"EXIF FocalLength", "FocalLength">>
lat_tag == "GPS GPSLatitude"
lon_tag == "GPS GPSLongitude"
lat_ref_tag == "GPS GPSLatitudeRef"
lon_ref_tag == "GPS GPSLongitudeRef"

Range(s) == {s[i] : i \in 1..Len(s)}

GpsKeys == {lat_tag, lon_tag, lat_ref_tag, lon_ref_tag}
TagKeys ==
    Range(dt_keys) \cup Range(MakeKeys) \cup Range(ModelKeys) \cup Range(IsoKeys)
    \cup Range(ExposureKeys) \cup Range(FNumberKeys) \cup Range(FocalKeys) \cup GpsKeys

EmptyTags == [k \in TagKeys |-> None]

\* k in tags
In(tags, k) == tags[k] # None

\* the aliases tried in the reverse order
RECURSIVE LastPresent(_, _)
LastPresent(tags, keys) ==
    IF keys = <<>> THEN None
    ELSE IF In(tags, keys[Len(keys)]) THEN tags[keys[Len(keys)]]
    ELSE LastPresent(tags, SubSeq(keys, 1, Len(keys) - 1))

\* for k in dt_keys: if k in tags: capture_dt = tags[k]; break
RECURSIVE FirstPresent(_, _)
FirstPresent(tags, keys) ==
    IF keys = <<>> THEN None
    ELSE IF In(tags, Head(keys)) THEN tags[Head(keys)]
    ELSE FirstPresent(tags, Tail(keys))

\* the aliases tried in the reverse order
GetOrSwapped(tags, keys) == PyOr(tags[keys[2]], tags[keys[1]])

\* tags.get(a) or tags.get(b)
GetOr(tags, keys) == PyOr(tags[keys[1]], tags[keys[2]])

\* [x for x in s if x]
RECURSIVE FilterTruthy(_)
FilterTruthy(s) ==
    IF s = <<>> THEN <<>>
    ELSE IF Truthy(Head(s)) THEN <<Head(s)>> \o FilterTruthy(Tail(s))
    ELSE FilterTruthy(Tail(s))

\* " ".join([str(x).strip() for x in (make, model) if x])
StripAll(kept) == [i \in 1..Len(kept) |-> Strip(kept[i])]

DeviceFrom(make, model) ==
    IF Truthy(make) \/ Truthy(model)
    THEN Join(StripAll(FilterTruthy(<<make, model>>)))
    ELSE None

\* the device entry of out, None when the key is not set
DeviceOf(tags) == DeviceFrom(GetOr(tags, MakeKeys), GetOr(tags, ModelKeys))

\* an exposure entry of out, None when the key is not set
IfTruthy(v) == IF Truthy(v) THEN v ELSE None

ExposureOf(tags, keys) == IfTruthy(GetOr(tags, keys))

NoGps == [lat |-> NoneF, lon |-> NoneF, google_maps |-> <<NoneF, NoneF>>]

Take3(s) == SubSeq(s, 1, 3)

\* [parse_component(x) for x in nums]
ParseAll(nums) == [i \in 1..Len(nums) |-> parse_component(nums[i])]

GpsBlock(lat_dec, lon_dec) ==
    IF lat_dec # NoneF /\ lon_dec # NoneF
    THEN [lat |-> lat_dec, lon |-> lon_dec, google_maps |-> <<lat_dec, lon_dec>>]
    ELSE NoGps

GpsFromTokens(lat_nums, lon_nums, lat_ref, lon_ref) ==
    IF Len(lat_nums) >= 3 /\ Len(lon_nums) >= 3
    THEN GpsBlock(dms_to_decimal(ParseAll(Take3(lat_nums)), lat_ref),
                  dms_to_decimal(ParseAll(Take3(lon_nums)), lon_ref))
    ELSE NoGps

\* two tokens accepted, the missing seconds taken as 0
GpsOfPads(tags) ==
    IF In(tags, lat_tag) /\ In(tags, lon_tag)
    THEN GpsFromTokens(FindAll(tags[lat_tag]) \o <<<<"0">>>>,
                       FindAll(tags[lon_tag]) \o <<<<"0">>>>,
                       tags[lat_ref_tag], tags[lon_ref_tag])
    ELSE NoGps

\* the gps entry of out, NoGps when the key is not set
GpsOf(tags) ==
    IF In(tags, lat_tag) /\ In(tags, lon_tag)
    THEN GpsFromTokens(FindAll(tags[lat_tag]), FindAll(tags[lon_tag]),
                       tags[lat_ref_tag], tags[lon_ref_tag])
    ELSE NoGps

\* parse_friendly_exif(tags): the dict out; an entry that is None or NoGps
\* stands for a key the code did not set (capture_datetime is always set,
\* possibly to None).
parse_friendly_exif(tags) ==
    [capture_datetime |-> FirstPresent(tags, dt_keys),
     device |-> DeviceOf(tags),
     ISO |-> ExposureOf(tags, IsoKeys),
     ExposureTime |-> ExposureOf(tags, ExposureKeys),
     Aperture |-> ExposureOf(tags, FNumberKeys),
     FocalLength |-> ExposureOf(tags, FocalKeys),
     gps |-> GpsOf(tags)]

\* the empty dict {} in the same shape
EmptyFriendly ==
    [capture_datetime |-> None, device |-> None, ISO |-> None,
     ExposureTime |-> None, Aperture |-> None, FocalLength |-> None,
     gps |-> NoGps]

\* ------------------------------------------------------------------------
\* summarize_one
\* ------------------------------------------------------------------------

\* What the collaborators return for one file (the environment of
\* summarize_one):
\*   fs     [ok, mtime]          os.stat succeeds (mtime = human_ts string) or raises
\*   image  [error, png_info]    Image.open raises, or the textual chunks copied
\*                               into info['png_info'] (NoPng: key not set)
\*   tags   [present, map]       exifread_tags: None, or the str(v) tag map
PngAliases == <<"Software", "Author", "Description", "Source", "Creator", "Creation Time">>
PngKeys == Range(PngAliases) \cup {"Comment"}
NoPng == [k \in PngKeys |-> None]

\* filesystem_info(path), or the {'error': str(e)} of the except branch
FilesystemStage(e) ==
    IF e.fs.ok THEN [error |-> FALSE, mtime |-> e.fs.mtime]
    ELSE [error |-> TRUE, mtime |-> None]

\* pillow_info(path): 'error' on a decode failure; png_info only when the
\* copied dict txt is not empty
pillow_info(e) ==
    IF e.image.error THEN [error |-> TRUE, png_info |-> NoPng]
    ELSE [error |-> FALSE, png_info |-> e.image.png_info]

\* exifread_tags(path) if exifread else None
exifread_tags(e) ==
    IF e.tags.present THEN [present |-> TRUE, map |-> e.tags.map]
    ELSE [present |-> FALSE, map |-> EmptyTags]

\* if tags: (None and the empty dict are falsy)
TagsTruthy(t) == t.present /\ t.map # EmptyTags

FriendlyStage(t) ==
    IF TagsTruthy(t) THEN parse_friendly_exif(t.map) ELSE EmptyFriendly

\* if not exif_friendly.get('capture_datetime'): ... = filesystem.get('mtime')
FallbackCaptureTime(friendly, filesystem) ==
    IF ~Truthy(friendly.capture_datetime)
    THEN [friendly EXCEPT !.capture_datetime = filesystem.mtime]
    ELSE friendly

\* isinstance(result['image'].get('png_info'), dict)
HasPngInfo(image) == image.png_info # NoPng

\* for k in (...): if k in png_info: device = str(png_info[k]); break
RECURSIVE FirstPngAlias(_, _)
FirstPngAlias(png, keys) ==
    IF keys = <<>> THEN None
    ELSE IF png[Head(keys)] # None THEN png[Head(keys)]
    ELSE FirstPngAlias(png, Tail(keys))

FallbackDevice(friendly, image) ==
    IF ~Truthy(friendly.device) /\ HasPngInfo(image)
       /\ \E i \in 1..Len(PngAliases) : image.png_info[PngAliases[i]] # None
    THEN [friendly EXCEPT !.device = FirstPngAlias(image.png_info, PngAliases)]
    ELSE friendly

\* the record summarize_one returns, from the results of its three extractors
Assemble(filesystem, image, t) ==
    [filesystem |-> filesystem, image |-> image, exif_tags |-> t,
     exif_friendly |->
        FallbackDevice(FallbackCaptureTime(FriendlyStage(t), filesystem), image)]

\* summarize_one(path) in the environment e
summarize_one(e) == Assemble(FilesystemStage(e), pillow_info(e), exifread_tags(e))

\* ------------------------------------------------------------------------
\* Bounds and input sets
\* ------------------------------------------------------------------------
MaxTokens == 3      \* numeric tokens in a generated GPS raw string
MaxPngKeys == 2     \* textual chunks in a generated png_info
MaxImages == 3      \* paths on a generated command line
MaxNum == 9         \* largest numerator / denominator of a generated fraction

\* the tag map that holds f on DOMAIN f and has no other key
TagsWith(f) == [k \in TagKeys |-> IF k \in DOMAIN f THEN f[k] ELSE None]

Acme == <<"A", "c", "m", "e">>
X100 == <<"X", "1", "0", "0">>

\* a recognisable value for each key, so that a result shows its origin
KeyVal(k) ==
    CASE k = "EXIF DateTimeOriginal" -> <<"d", "1">>
      [] k = "EXIF DateTimeDigitized" -> <<"d", "2">>
      [] k = "Image DateTime" -> <<"d", "3">>
      [] k = "EXIF ISOSpeedRatings" -> <<"1", "0", "0">>
      [] k = "PhotographicSensitivity" -> <<"2", "0", "0">>
      [] k = "EXIF ExposureTime" -> <<"1", "/", "2", "5", "0">>
      [] k = "ExposureTime" -> <<"1", "/", "6", "0">>
      [] k = "EXIF FNumber" -> <<"1", "4", "/", "5">>
      [] k = "FNumber" -> <<"4">>
      [] k = "EXIF FocalLength" -> <<"3", "5">>
      [] k = "FocalLength" -> <<"5", "0">>
      [] k = "Software" -> <<"G", "I", "M", "P">>
      [] k = "Author" -> <<"a", "u">>
      [] k = "Description" -> <<"d", "e">>
      [] k = "Source" -> <<"s", "o">>
      [] k = "Creator" -> <<"c", "r">>
      [] k = "Creation Time" -> <<"c", "t">>
      [] k = "Comment" -> <<"c", "o">>

\* values a key may carry: missing, the empty string, or its own value
KeyVals(k) == {None, <<>>, KeyVal(k)}
Pick(k, i) == IF i = 0 THEN None ELSE IF i = 1 THEN <<>> ELSE KeyVal(k)

\* the maps over keys that give each key one of KeyVals
KeyMaps(keys) == {[k \in keys |-> Pick(k, c[k])] : c \in [keys -> 0..2]}

DateFamily == {TagsWith(f) : f \in KeyMaps(Range(dt_keys))}

DeviceVals == {None, <<>>, <<" ">>, Acme, <<" ">> \o X100 \o <<" ">>, X100}
DeviceFamily ==
    {TagsWith(f) : f \in [Range(MakeKeys) \cup Range(ModelKeys) -> DeviceVals]}

ExposureAllKeys ==
    Range(IsoKeys) \cup Range(ExposureKeys) \cup Range(FNumberKeys) \cup Range(FocalKeys)
ExposureFamily == {TagsWith(f) : f \in KeyMaps(ExposureAllKeys)}

\* GPS raw strings as exifread prints a list of ratios: "[34, 5, 1/2]"
GpsTokens ==
    {<<"3", "4">>, <<"5">>, <<"1", "2">>, <<"1", "/", "2">>, <<"7", "/", "0">>,
     <<"-", "3">>, <<"1", ".", "5">>}

RECURSIVE JoinComma(_)
JoinComma(parts) ==
    IF parts = <<>> THEN <<>>
    ELSE IF Len(parts) = 1 THEN parts[1]
    ELSE parts[1] \o <<",", " ">> \o JoinComma(Tail(parts))

RawOf(tokens) == <<"[">> \o JoinComma(tokens) \o <<"]">>

RawStrings == {RawOf(t) : t \in UNION {[1..n -> GpsTokens] : n \in 0..MaxTokens}}

GoodRaw == RawOf(<<<<"3", "4">>, <<"5">>, <<"1", "2">>>>)
FewRaw == {None, GoodRaw, RawOf(<<<<"3", "4">>, <<"5">>>>)}
RefVals == {None, <<"N">>, <<"S">>, <<"s">>, <<"W">>, <<"E">>}

\* the other tags of the GPS inputs: a device and exposure tags are present
GpsBackground ==
    [k \in {"Make", "Image Model", "EXIF ISOSpeedRatings", "FNumber",
            "EXIF ExposureTime", "FocalLength", "Image DateTime"} |->
        IF k = "Make" THEN Acme ELSE IF k = "Image Model" THEN X100 ELSE KeyVal(k)]

GpsTags(lat, latref, lon, lonref) ==
    [k \in TagKeys |->
        CASE k = lat_tag -> lat
          [] k = lat_ref_tag -> latref
          [] k = lon_tag -> lon
          [] k = lon_ref_tag -> lonref
          [] k \in DOMAIN GpsBackground -> GpsBackground[k]
          [] OTHER -> None]

\* tags is a GPS input: one axis ranges over the generated raw strings, the
\* other over FewRaw
IsGpsInput(t) ==
    \/ \E lat \in RawStrings \cup {None}, ref \in RefVals, lon \in FewRaw :
            t = GpsTags(lat, ref, lon, <<"E">>)
    \/ \E lat \in FewRaw, ref \in RefVals, lon \in RawStrings \cup {None} :
            t = GpsTags(lat, <<"N">>, lon, ref)

PngMaps ==
    {m \in KeyMaps(PngKeys) :
        Cardinality({k \in PngKeys : m[k] # None}) \in 1..MaxPngKeys}

Mtime == <<"m", "t">>

SumDeviceFamily ==
    {TagsWith(("Image Make" :> mk) @@ ("Image Model" :> md)) :
        mk \in {None, <<" ">>, Acme}, md \in {None, X100}}

FsOutcomes == {[ok |-> TRUE, mtime |-> Mtime], [ok |-> FALSE, mtime |-> None]}
ImageOutcomes ==
    {[error |-> TRUE, png_info |-> NoPng], [error |-> FALSE, png_info |-> NoPng]}
    \cup {[error |-> FALSE, png_info |-> m] : m \in PngMaps}
TagOutcomes ==
    {[present |-> FALSE, map |-> EmptyTags]}
    \cup {[present |-> TRUE, map |-> t] : t \in DateFamily \cup SumDeviceFamily}

\* the files of the batch runs and what the collaborators return for each
Paths == {"a.jpg", "b.png", "c.jpg"}
FileEnv(p) ==
    CASE p = "a.jpg" ->
            [fs |-> [ok |-> TRUE, mtime |-> Mtime],
             image |-> [error |-> FALSE, png_info |-> NoPng],
             tags |-> [present |-> TRUE,
                       map |-> GpsTags(GoodRaw, <<"N">>, GoodRaw, <<"W">>)]]
      [] p = "b.png" ->
            [fs |-> [ok |-> TRUE, mtime |-> Mtime],
             image |-> [error |-> FALSE,
                        png_info |-> [NoPng EXCEPT !["Software"] = KeyVal("Software")]],
             tags |-> [present |-> TRUE, map |-> EmptyTags]]
      [] p = "c.jpg" ->
            [fs |-> [ok |-> TRUE, mtime |-> Mtime],
             image |-> [error |-> TRUE, png_info |-> NoPng],
             tags |-> [present |-> FALSE, map |-> EmptyTags]]

CommandLines == UNION {[1..n -> Paths] : n \in 1..MaxImages}

\* ------------------------------------------------------------------------
\* State
\* ------------------------------------------------------------------------
VARIABLES
    pc,           \* position of the operation under way
    tags,         \* parse_friendly_exif: the argument
    out,          \* parse_friendly_exif: the returned dict
    env,          \* summarize_one: what the collaborators return for the file
    result,       \* summarize_one: the dict result, key by key
    num, den,     \* a fraction num/den: a Ratio and the token 'num/den'
    coerced,      \* rational_to_float(Ratio(num, den))
    parsed,       \* parse_component('num/den')
    images,       \* main: args.images
    exists,       \* main: os.path.exists, per path
    disk,         \* main: what the collaborators return, per path
    format,       \* main: args.format
    output,       \* main: args.output is given
    write_ok,     \* main: opening and writing args.output succeeds
    idx,          \* main: index of the path the for loop is at
    all_results,  \* main: the dict all_results, in insertion order
    stderr,       \* main: lines on the error stream
    stdout,       \* main: items on standard output
    exit_code     \* main: exit status, Running until the process ends

Running == 0 - 1

friendlyVars == <<tags, out>>
sumVars == <<env, result>>
coerceVars == <<num, den, coerced, parsed>>
mainVars == <<images, exists, disk, format, output, write_ok, idx, all_results,
              stderr, stdout, exit_code>>
vars == <<pc, tags, out, env, result, num, den, coerced, parsed, images, exists, disk,
          format, output, write_ok, idx, all_results, stderr, stdout, exit_code>>

NoResult == [k \in {} |-> None]
IdleEnv ==
    [fs |-> [ok |-> FALSE, mtime |-> None],
     image |-> [error |-> TRUE, png_info |-> NoPng],
     tags |-> [present |-> FALSE, map |-> EmptyTags]]

FriendlyIdle == tags = EmptyTags /\ out = EmptyFriendly
SumIdle == env = IdleEnv /\ result = NoResult
CoerceIdle == num = 0 /\ den = 1 /\ coerced = NoneF /\ parsed = NoneF
MainIdle ==
    /\ images = <<>> /\ exists = [p \in Paths |-> FALSE]
    /\ disk = [p \in Paths |-> IdleEnv]
    /\ format = "text" /\ output = FALSE /\ write_ok = TRUE
    /\ idx = 1 /\ all_results = <<>> /\ stderr = <<>> /\ stdout = <<>>
    /\ exit_code = Running

\* ------------------------------------------------------------------------
\* parse_friendly_exif applied to every generated tag map
\* ------------------------------------------------------------------------
FriendlyInit ==
    /\ pc = "input"
    /\ \/ tags \in DateFamily \cup DeviceFamily \cup ExposureFamily
       \/ IsGpsInput(tags)
    /\ out = EmptyFriendly
    /\ SumIdle /\ CoerceIdle /\ MainIdle

ParseFriendly ==
    /\ pc = "input"
    /\ out' = parse_friendly_exif(tags)
    /\ pc' = "parsed"
    /\ UNCHANGED <<tags, sumVars, coerceVars, mainVars>>

FriendlyNext == ParseFriendly
SpecFriendly == FriendlyInit /\ [][FriendlyNext]_vars

\* ------------------------------------------------------------------------
\* numeric coercion of a fraction: rational_to_float and parse_component
\* ------------------------------------------------------------------------
RECURSIVE NatStr(_)
NatStr(k) ==
    LET c == CHOOSE ch \in Digit : DigitVal(ch) = k % 10
    IN IF k < 10 THEN <<c>> ELSE NatStr(k \div 10) \o <<c>>

\* the token 'a/b' as the GPS pattern matches it (a signed, b unsigned)
FractionToken(a, b) ==
    (IF a < 0 THEN <<"-">> ELSE <<>>) \o NatStr(Abs(a)) \o <<"/">> \o NatStr(b)

CoerceInit ==
    /\ pc = "input"
    /\ num \in (0 - MaxNum)..MaxNum
    /\ den \in 0..MaxNum
    /\ coerced = NoneF /\ parsed = NoneF
    /\ FriendlyIdle /\ SumIdle /\ MainIdle

RationalToFloat ==
    /\ pc = "input"
    /\ coerced' = rational_to_float([kind |-> "Ratio", num |-> num, den |-> den]).val
    /\ pc' = "coerced"
    /\ UNCHANGED <<num, den, parsed, friendlyVars, sumVars, mainVars>>

ParseComponent ==
    /\ pc = "input"
    /\ parsed' = parse_component(FractionToken(num, den))
    /\ pc' = "parsed"
    /\ UNCHANGED <<num, den, coerced, friendlyVars, sumVars, mainVars>>

CoerceNext == RationalToFloat \/ ParseComponent
SpecCoerce == CoerceInit /\ [][CoerceNext]_vars

\* ------------------------------------------------------------------------
\* summarize_one, stage by stage
\* ------------------------------------------------------------------------
SumInit ==
    /\ pc = "Start"
    /\ \E f \in FsOutcomes, i \in ImageOutcomes, t \in TagOutcomes :
            env = [fs |-> f, image |-> i, tags |-> t]
    /\ result = NoResult
    /\ FriendlyIdle /\ CoerceIdle /\ MainIdle

\* the filesystem stage with the exception of os.stat left uncaught
FilesystemRaises ==
    /\ pc = "Start"
    /\ result' = IF env.fs.ok THEN ("filesystem" :> FilesystemStage(env)) @@ result
                 ELSE result
    /\ pc' = IF env.fs.ok THEN "Filesystem" ELSE "Done"
    /\ UNCHANGED <<env, friendlyVars, coerceVars, mainVars>>

\* result['filesystem'] = filesystem_info(path), or {'error': str(e)}
Filesystem ==
    /\ pc = "Start"
    /\ result' = ("filesystem" :> FilesystemStage(env)) @@ result
    /\ pc' = "Filesystem"
    /\ UNCHANGED <<env, friendlyVars, coerceVars, mainVars>>

\* result['image'] = pillow_info(path)
ImageInfo ==
    /\ pc = "Filesystem"
    /\ result' = ("image" :> pillow_info(env)) @@ result
    /\ pc' = "ImageInfo"
    /\ UNCHANGED <<env, friendlyVars, coerceVars, mainVars>>

\* result['exif_tags'] = exifread_tags(path) if exifread else None
RawTags ==
    /\ pc = "ImageInfo"
    /\ result' = ("exif_tags" :> exifread_tags(env)) @@ result
    /\ pc' = "RawTags"
    /\ UNCHANGED <<env, friendlyVars, coerceVars, mainVars>>

\* result['exif_friendly'] = parse_friendly_exif(tags) if tags else {}
FriendlyFields ==
    /\ pc = "RawTags"
    /\ result' = ("exif_friendly" :> FriendlyStage(result["exif_tags"])) @@ result
    /\ pc' = "FriendlyFields"
    /\ UNCHANGED <<env, friendlyVars, coerceVars, mainVars>>

FallbackCapture ==
    /\ pc = "FriendlyFields"
    /\ result' = [result EXCEPT !["exif_friendly"] =
                     FallbackCaptureTime(@, result["filesystem"])]
    /\ pc' = "FallbackCaptureTime"
    /\ UNCHANGED <<env, friendlyVars, coerceVars, mainVars>>

\* the device fallback, then return result
FallbackDeviceAndReturn ==
    /\ pc = "FallbackCaptureTime"
    /\ result' = [result EXCEPT !["exif_friendly"] =
                     FallbackDevice(@, result["image"])]
    /\ pc' = "Done"
    /\ UNCHANGED <<env, friendlyVars, coerceVars, mainVars>>

SumNext ==
    \/ Filesystem \/ ImageInfo \/ RawTags \/ FriendlyFields
    \/ FallbackCapture \/ FallbackDeviceAndReturn

SpecSummarize == SumInit /\ [][SumNext]_vars

\* summarize_one is straight-line code: a stage that can run does run
FairSummarize == SpecSummarize /\ WF_vars(SumNext)

\* ------------------------------------------------------------------------
\* main: the batch loop and the output
\* ------------------------------------------------------------------------
FileNotFound == [error |-> "file not found"]

\* d[k] = v on an insertion-ordered dict: a new key goes last, a key already
\* there keeps its place
DictSet(d, k, v) ==
    IF \E i \in 1..Len(d) : d[i].key = k
    THEN [i \in 1..Len(d) |-> IF d[i].key = k THEN [key |-> k, val |-> v] ELSE d[i]]
    ELSE Append(d, [key |-> k, val |-> v])

\* isinstance(res, dict) and res.get('error')
HasError(res) == "error" \in DOMAIN res

RECURSIVE TextErr(_)
TextErr(d) ==
    IF d = <<>> THEN <<>>
    ELSE (IF HasError(Head(d).val)
          THEN <<[msg |-> "file not found", path |-> Head(d).key]>> ELSE <<>>)
         \o TextErr(Tail(d))

RECURSIVE TextOut(_)
TextOut(d) ==
    IF d = <<>> THEN <<>>
    ELSE (IF HasError(Head(d).val)
          THEN <<>> ELSE <<[kind |-> "print_clean", path |-> Head(d).key]>>)
         \o TextOut(Tail(d))

Init ==
    /\ pc = "loop"
    /\ images \in CommandLines
    /\ exists \in [Paths -> BOOLEAN]
    /\ disk = [p \in Paths |-> FileEnv(p)]
    /\ format \in {"text", "json"}
    /\ output \in BOOLEAN
    /\ write_ok \in BOOLEAN
    /\ idx = 1
    /\ all_results = <<>>
    /\ stderr = <<>>
    /\ stdout = <<>>
    /\ exit_code = Running
    /\ FriendlyIdle /\ SumIdle /\ CoerceIdle

mainInputs == <<images, exists, disk, format, output, write_ok>>

\* loop body, path missing, with break in place of continue
LoopMissingBreaks ==
    /\ pc = "loop" /\ idx <= Len(images)
    /\ ~exists[images[idx]]
    /\ stderr' = Append(stderr, [msg |-> "File not found", path |-> images[idx]])
    /\ all_results' = DictSet(all_results, images[idx], FileNotFound)
    /\ idx' = Len(images) + 1
    /\ UNCHANGED <<pc, mainInputs, stdout, exit_code, friendlyVars, sumVars, coerceVars>>

\* loop body, path missing: report, record the error entry, continue
LoopMissing ==
    /\ pc = "loop" /\ idx <= Len(images)
    /\ ~exists[images[idx]]
    /\ stderr' = Append(stderr, [msg |-> "File not found", path |-> images[idx]])
    /\ all_results' = DictSet(all_results, images[idx], FileNotFound)
    /\ idx' = idx + 1
    /\ UNCHANGED <<pc, mainInputs, stdout, exit_code, friendlyVars, sumVars, coerceVars>>

\* loop body, path exists: all_results[p] = summarize_one(p)
LoopSummarize ==
    /\ pc = "loop" /\ idx <= Len(images)
    /\ exists[images[idx]]
    /\ all_results' = DictSet(all_results, images[idx], summarize_one(disk[images[idx]]))
    /\ idx' = idx + 1
    /\ UNCHANGED <<pc, mainInputs, stderr, stdout, exit_code, friendlyVars, sumVars, coerceVars>>

\* args.output given, json.dump succeeds
SaveJson ==
    /\ pc = "loop" /\ idx > Len(images)
    /\ output /\ write_ok
    /\ stdout' = Append(stdout, [kind |-> "JSON saved to", path |-> ""])
    /\ exit_code' = 0
    /\ pc' = "exited"
    /\ UNCHANGED <<mainInputs, idx, all_results, stderr, friendlyVars, sumVars, coerceVars>>

\* args.output given, open or json.dump raises: sys.exit(2)
SaveJsonFails ==
    /\ pc = "loop" /\ idx > Len(images)
    /\ output /\ ~write_ok
    /\ stderr' = Append(stderr, [msg |-> "Failed to save JSON", path |-> ""])
    /\ exit_code' = 2
    /\ pc' = "exited"
    /\ UNCHANGED <<mainInputs, idx, all_results, stdout, friendlyVars, sumVars, coerceVars>>

\* -f json without -o: print(json.dumps(out))
PrintJson ==
    /\ pc = "loop" /\ idx > Len(images)
    /\ format = "json" /\ ~output
    /\ stdout' = Append(stdout, [kind |-> "json.dumps", path |-> ""])
    /\ exit_code' = 0
    /\ pc' = "exited"
    /\ UNCHANGED <<mainInputs, idx, all_results, stderr, friendlyVars, sumVars, coerceVars>>

\* text output that exits 1 when an entry is an error entry
PrintTextFailsOnError ==
    /\ pc = "loop" /\ idx > Len(images)
    /\ ~(format = "json" \/ output)
    /\ stderr' = stderr \o TextErr(all_results)
    /\ stdout' = stdout \o TextOut(all_results)
    /\ exit_code' = IF TextErr(all_results) # <<>> THEN 1 ELSE 0
    /\ pc' = "exited"
    /\ UNCHANGED <<mainInputs, idx, all_results, friendlyVars, sumVars, coerceVars>>

\* default text output: an error entry goes to stderr, a record to print_clean
PrintText ==
    /\ pc = "loop" /\ idx > Len(images)
    /\ ~(format = "json" \/ output)
    /\ stderr' = stderr \o TextErr(all_results)
    /\ stdout' = stdout \o TextOut(all_results)
    /\ exit_code' = 0
    /\ pc' = "exited"
    /\ UNCHANGED <<mainInputs, idx, all_results, friendlyVars, sumVars, coerceVars>>

Next ==
    \/ LoopMissing \/ LoopSummarize
    \/ SaveJson \/ SaveJsonFails \/ PrintJson \/ PrintText

Spec == Init /\ [][Next]_vars

\* ------------------------------------------------------------------------
\* Properties of the batch loop and the exit status (Spec)
\* ------------------------------------------------------------------------
RecordKeys == {"filesystem", "image", "exif_tags", "exif_friendly"}

\* the distinct elements of s in order of first occurrence
RECURSIVE FirstOccurrences(_)
FirstOccurrences(s) ==
    IF s = <<>> THEN <<>>
    ELSE LET front == SubSeq(s, 1, Len(s) - 1)
             last == s[Len(s)]
         IN IF \E i \in 1..Len(front) : front[i] = last
            THEN FirstOccurrences(front)
            ELSE Append(FirstOccurrences(front), last)

Processed == SubSeq(images, 1, idx - 1)

\* C1: the output mapping has exactly one entry per input path, in input
\* order (a path given twice keeps the place of its first occurrence): a
\* missing path has the error marker, an existing path the full record of
\* summarize_one, and the loop covers the whole list whatever is missing.
C1_OneEntryPerPath ==
    /\ [i \in 1..Len(all_results) |-> all_results[i].key] = FirstOccurrences(Processed)
    /\ \A i \in 1..Len(all_results) :
          LET e == all_results[i]
          IN IF exists[e.key]
             THEN /\ DOMAIN e.val = RecordKeys
                  /\ e.val = summarize_one(disk[e.key])
             ELSE /\ DOMAIN e.val = {"error"}
                  /\ e.val.error = "file not found"
    /\ pc = "exited" => idx = Len(images) + 1

C1_Witness ==
    /\ pc = "exited"
    /\ Len(images) = 3 /\ Len(all_results) = 3
    /\ exists[images[1]] /\ ~exists[images[2]] /\ exists[images[3]]
    /\ all_results[2].val = FileNotFound
    /\ DOMAIN all_results[3].val = RecordKeys

Missing == {images[i] : i \in 1..Len(images)} \ {p \in Paths : exists[p]}

RecordComplete ==
    /\ DOMAIN result = RecordKeys
    /\ result["filesystem"].error <=> ~env.fs.ok
    /\ env.fs.ok => result["filesystem"].mtime = env.fs.mtime
    /\ result["image"].error <=> env.image.error
    /\ ~env.image.error => result["image"].png_info = env.image.png_info
    /\ result["exif_tags"].present <=> env.tags.present
    /\ env.tags.present => result["exif_tags"].map = env.tags.map
    /\ DOMAIN result["exif_friendly"] = DOMAIN EmptyFriendly

\* C2: summarize_one always reaches Done, whatever the stage outcomes; the
\* record then has all four sub-records, and a failed stage shows only as
\* the error marker of its own sub-record, the other sub-records being what
\* their own collaborator returned.
C2_ReachesDone == <>(pc = "Done") /\ [](pc = "Done" => RecordComplete)

C2_Witness ==
    /\ pc = "Done"
    /\ ~env.fs.ok /\ env.image.error /\ ~env.tags.present
    /\ DOMAIN result = RecordKeys
    /\ result["filesystem"].error /\ result["image"].error

\* the aliases of dt_keys that are in the tag map, by position
DtPresent == {i \in 1..Len(dt_keys) : env.tags.present /\ env.tags.map[dt_keys[i]] # None}
FirstDt == env.tags.map[dt_keys[CHOOSE i \in DtPresent : \A j \in DtPresent : i <= j]]

\* C3 as stated: capture_datetime is the value of the first alias present,
\* and the modification timestamp only when none of the three is present.
C3_FirstAliasOrMtimeOnlyIfNone ==
    pc = "Done" =>
        result["exif_friendly"].capture_datetime =
            IF DtPresent # {} THEN FirstDt ELSE result["filesystem"].mtime

\* C3 amended: capture_datetime is the value of the first alias present when
\* that value is not empty; otherwise (no alias, no tag map, or that value
\* empty) it is the mtime of the filesystem record, null when the stat failed.
C3_FirstAliasUnlessEmpty ==
    pc = "Done" =>
        result["exif_friendly"].capture_datetime =
            IF DtPresent # {} /\ FirstDt # <<>> THEN FirstDt
            ELSE IF env.fs.ok THEN env.fs.mtime ELSE None

C3_Witness ==
    /\ pc = "Done"
    /\ env.tags.present /\ env.fs.ok
    /\ env.tags.map["EXIF DateTimeOriginal"] = <<>>
    /\ env.tags.map["Image DateTime"] = KeyVal("Image DateTime")
    /\ result["exif_friendly"].capture_datetime = Mtime

\* the png_info aliases present, by position
PngPresent == {i \in 1..Len(PngAliases) : env.image.png_info[PngAliases[i]] # None}

\* C9: the device fallback changes device only when device is null after tag
\* selection and png_info exists; device then becomes the value of the first
\* alias present; a device set from the make / model tags is never replaced.
C9_DeviceFallbackOnlyWhenNull ==
    [][(pc = "FallbackCaptureTime" /\ pc' = "Done") =>
        LET before == result["exif_friendly"].device
            after == result'["exif_friendly"].device
        IN IF before = None /\ ~env.image.error /\ PngPresent # {}
           THEN after = env.image.png_info[
                            PngAliases[CHOOSE i \in PngPresent : \A j \in PngPresent : i <= j]]
           ELSE after = before]_vars

\* ------------------------------------------------------------------------
\* Properties of parse_friendly_exif (SpecFriendly)
\* ------------------------------------------------------------------------
Present(v) == v # None /\ v # <<>>
FirstNonEmpty(a, b) == IF Present(a) THEN a ELSE IF Present(b) THEN b ELSE None

Manufacturer == FirstNonEmpty(tags["Image Make"], tags["Make"])
CameraModel == FirstNonEmpty(tags["Image Model"], tags["Model"])

\* C4: device is the space-joined concatenation of the trimmed manufacturer
\* and model that are present; an absent component is skipped; the result
\* has no leading or trailing space and no empty segment.
C4_DeviceTrimmedJoin ==
    pc = "parsed" =>
        /\ out.device =
              IF Manufacturer # None /\ CameraModel # None
                  THEN Strip(Manufacturer) \o <<" ">> \o Strip(CameraModel)
              ELSE IF Manufacturer # None THEN Strip(Manufacturer)
              ELSE IF CameraModel # None THEN Strip(CameraModel)
              ELSE None
        /\ out.device # None =>
              /\ out.device # <<>>
              /\ out.device[1] # " " /\ out.device[Len(out.device)] # " "
              /\ \A i \in 1..(Len(out.device) - 1) :
                    ~(out.device[i] = " " /\ out.device[i + 1] = " ")

ExposureFields ==
    <<[field |-> "ISO", keys |-> IsoKeys],
      [field |-> "ExposureTime", keys |-> ExposureKeys],
      [field |-> "Aperture", keys |-> FNumberKeys],
      [field |-> "FocalLength", keys |-> FocalKeys]>>

FirstInMap(keys) ==
    IF tags[keys[1]] # None THEN tags[keys[1]] ELSE tags[keys[2]]

\* C10 as stated: each exposure field is the raw string of the first alias
\* present in the map, and is absent exactly when no alias is present.
C10_FirstAliasPresent ==
    pc = "parsed" =>
        \A i \in 1..Len(ExposureFields) :
            out[ExposureFields[i].field] = FirstInMap(ExposureFields[i].keys)

\* C10 amended: each exposure field is the unmodified raw string of the first
\* alias whose value is not empty, and is absent exactly when no alias has a
\* non-empty value.
C10_FirstAliasNonEmpty ==
    pc = "parsed" =>
        \A i \in 1..Len(ExposureFields) :
            LET keys == ExposureFields[i].keys
            IN out[ExposureFields[i].field] = FirstNonEmpty(tags[keys[1]], tags[keys[2]])

C10_Witness ==
    /\ pc = "parsed"
    /\ tags["EXIF ISOSpeedRatings"] = <<>>
    /\ tags["PhotographicSensitivity"] = KeyVal("PhotographicSensitivity")
    /\ out.ISO = KeyVal("PhotographicSensitivity")
    /\ tags["EXIF FNumber"] = KeyVal("EXIF FNumber") /\ tags["FNumber"] = KeyVal("FNumber")
    /\ out.Aperture = KeyVal("EXIF FNumber")
    /\ out.FocalLength = None

\* the first three numeric tokens of a raw string, parsed
AxisComps(raw) == [i \in 1..3 |-> parse_component(FindAll(raw)[i])]

AxisFails(raw) ==
    \/ raw = None
    \/ Len(FindAll(raw)) < 3
    \/ \E i \in 1..3 : AxisComps(raw)[i] = NoneF

WithoutGps(t) == [k \in TagKeys |-> IF k \in GpsKeys THEN None ELSE t[k]]

\* C6: when either axis is missing, has fewer than three numeric tokens or
\* fails to parse, the record has no gps block and its other fields are what
\* the same tag map without the GPS tags gives.
C6_GpsFailureIsLocal ==
    (pc = "parsed" /\ (AxisFails(tags[lat_tag]) \/ AxisFails(tags[lon_tag]))) =>
        /\ out.gps = NoGps
        /\ out = parse_friendly_exif(WithoutGps(tags))

C6_Witness ==
    /\ pc = "parsed"
    /\ tags[lat_tag] = RawOf(<<<<"3", "4">>, <<"5">>>>)
    /\ tags[lon_tag] = GoodRaw
    /\ out.gps = NoGps
    /\ out.device = Acme \o <<" ">> \o X100
    /\ out.ISO = KeyVal("EXIF ISOSpeedRatings")

IsSouthWest(ref) == ref \in {<<"S">>, <<"s">>, <<"W">>, <<"w">>}

Axes ==
    <<[raw |-> lat_tag, ref |-> lat_ref_tag, field |-> "lat"],
      [raw |-> lon_tag, ref |-> lon_ref_tag, field |-> "lon"]>>

\* C7 as stated: an emitted coordinate is negative only when its ref is S or
\* W, is never negative otherwise, and comes from non-negative components.
C7_SignFromRefAlone ==
    (pc = "parsed" /\ out.gps # NoGps) =>
        \A a \in 1..2 :
            LET coord == out.gps[Axes[a].field]
                comps == AxisComps(tags[Axes[a].raw])
            IN /\ \A i \in 1..3 : comps[i].n >= 0
               /\ coord.n < 0 => IsSouthWest(tags[Axes[a].ref])

\* whole seconds of arc in |deg*3600 + min*60 + sec|
ArcSeconds(comps) ==
    LET t == RatAdd(RatAdd(Rat(3600 * comps[1].n, comps[1].d),
                           Rat(60 * comps[2].n, comps[2].d)), comps[3])
    IN Abs(t.n) \div t.d

\* C7 amended: an emitted coordinate is deg + min/60 + sec/3600 of the three
\* parsed components, rounded to 7 places, negated exactly when the ref
\* upper-cases to S or W; the same triple gives opposite values under N and
\* S; with non-negative components it is negative only under S or W.  The
\* components themselves may be negative (signed tokens are accepted).
C7_RefNegatesMagnitude ==
    (pc = "parsed" /\ out.gps # NoGps) =>
        \A a \in 1..2 :
            LET coord == out.gps[Axes[a].field]
                ref == tags[Axes[a].ref]
                comps == AxisComps(tags[Axes[a].raw])
                base == dms_to_decimal(comps, None)
                degs == Abs(base.n) \div base.d
            IN /\ coord = IF IsSouthWest(ref) THEN RatNeg(base) ELSE base
               /\ dms_to_decimal(comps, <<"S">>) = RatNeg(dms_to_decimal(comps, <<"N">>))
               /\ (\A i \in 1..3 : comps[i].n >= 0) =>
                     /\ base.n >= 0
                     /\ coord.n < 0 => IsSouthWest(ref)
               /\ 3600 * degs <= ArcSeconds(comps) + 1
               /\ ArcSeconds(comps) < 3600 * (degs + 1) + 1
               /\ tags[Axes[a].raw] = GoodRaw =>
                     RatAbs(coord) = Rat(340866667, Pow10(Precision))

C7_Witness ==
    /\ pc = "parsed"
    /\ tags[lat_tag] = GoodRaw /\ tags[lat_ref_tag] = <<"s">>
    /\ tags[lon_tag] = GoodRaw /\ tags[lon_ref_tag] = <<"E">>
    /\ out.gps.lat = Rat(0 - 340866667, Pow10(Precision))
    /\ out.gps.lon = Rat(340866667, Pow10(Precision))

\* ------------------------------------------------------------------------
\* Property of numeric coercion (SpecCoerce)
\* ------------------------------------------------------------------------
IsQuotient(v) ==
    /\ v # NoneF
    /\ IF den = 0 THEN v.n = 0 ELSE v.n * den = num * v.d

\* C5: a fraction a/b coerces to a/b when b is not 0 and to 0.0 when b is 0,
\* as a Ratio through rational_to_float and as a token of a GPS string
\* through parse_component; a zero denominator never gives an absent result.
C5_FractionCoercion ==
    /\ pc = "coerced" => IsQuotient(coerced)
    /\ pc = "parsed" => IsQuotient(parsed)

====
